---- MODULE Spec2Model ----
(***************************************************************************)
(* Model of project.cpp: Rectangle, Property, RTreeNode and RTree, driven  *)
(* by the three operations of main's menu loop.                            *)
(*                                                                         *)
(* Numbers.  The program computes in double.  The model draws every input  *)
(* coordinate, radius, price and area from small sets of integers, on      *)
(* which double arithmetic is exact.  The only non-integer values the      *)
(* program then produces are the bbox centroids (x_min + x_max) / 2, which *)
(* are multiples of 1/2; calculateDistance therefore takes its four        *)
(* arguments in half units (twice the real value) and returns whole units. *)
(* A pointer to a Property is its index in heap, in allocation order.       *)
(***************************************************************************)
EXTENDS Integers, Sequences, FiniteSets

VARIABLES root, heap, op, args, results, rect_a, rect_b, rect_hit

vars == <<root, heap, op, args, results, rect_a, rect_b, rect_hit>>

----------------------------------------------------------------------------
(* Bounds *)

\* number of Property objects main may create and insert
MaxProps == 2

\* coordinates 0..MaxCoord of the rectangles fed to Rectangle::intersects alone
MaxCoord == 2

----------------------------------------------------------------------------
(* Rectangle *)

Rectangle(x1, y1, x2, y2) == [x_min |-> x1, y_min |-> y1, x_max |-> x2, y_max |-> y2]

\* mutant: the first x-axis test is boundary-exclusive
intersects_strict(a, other) ==
    ~(a.x_min >= other.x_max \/ a.x_max < other.x_min
        \/ a.y_min > other.y_max \/ a.y_max < other.y_min)

\* mutant: every test is boundary-exclusive, touching rectangles are disjoint
intersects_open(a, other) ==
    ~(a.x_min >= other.x_max \/ a.x_max <= other.x_min
        \/ a.y_min >= other.y_max \/ a.y_max <= other.y_min)

\* mutant: the last test compares y_max with the other's y_max
intersects_asym(a, other) ==
    ~(a.x_min > other.x_max \/ a.x_max < other.x_min
        \/ a.y_min > other.y_max \/ a.y_max < other.y_max)

intersects(a, other) ==
    ~(a.x_min > other.x_max \/ a.x_max < other.x_min
        \/ a.y_min > other.y_max \/ a.y_max < other.y_min)

----------------------------------------------------------------------------
(* Property *)

Property(loc, p, a, b, box) ==
    [location |-> loc, price |-> p, area |-> a, bedrooms |-> b, bbox |-> box]

----------------------------------------------------------------------------
(* RTreeNode *)

Min(a, b) == IF a < b THEN a ELSE b
Max(a, b) == IF a > b THEN a ELSE b

RTreeNode(bbox, leaf) ==
    [children |-> <<>>, leaf_properties |-> <<>>, bounding_box |-> bbox, is_leaf |-> leaf]

\* axis-wise min/max of box and the boxes in the sequence
RECURSIVE FoldBoxes(_, _)
FoldBoxes(box, boxes) ==
    IF boxes = <<>> THEN box
    ELSE FoldBoxes(Rectangle(Min(box.x_min, Head(boxes).x_min),
                             Min(box.y_min, Head(boxes).y_min),
                             Max(box.x_max, Head(boxes).x_max),
                             Max(box.y_max, Head(boxes).y_max)),
                   Tail(boxes))

updateBoundingBox(node, h) ==
    IF node.children = <<>> /\ node.leaf_properties = <<>> THEN node
    ELSE IF node.is_leaf
         THEN [node EXCEPT !.bounding_box =
                 FoldBoxes(node.bounding_box,
                           [i \in 1..Len(node.leaf_properties) |-> h[node.leaf_properties[i]].bbox])]
         ELSE [node EXCEPT !.bounding_box =
                 FoldBoxes(node.bounding_box,
                           [i \in 1..Len(node.children) |-> node.children[i].bounding_box])]

\* mutant: the leaf branch also recomputes the leaf's bounding box
RTreeNode_insert_grow(node, child, h) ==
    IF node.is_leaf
    THEN updateBoundingBox([node EXCEPT !.leaf_properties = Append(@, child)], h)
    ELSE updateBoundingBox(
            [node EXCEPT !.children = Append(@, RTreeNode(h[child].bbox, FALSE))], h)

\* mutant: the leaf branch puts the new listing in front
RTreeNode_insert_front(node, child, h) ==
    IF node.is_leaf
    THEN [node EXCEPT !.leaf_properties = <<child>> \o @]
    ELSE updateBoundingBox(
            [node EXCEPT !.children = Append(@, RTreeNode(h[child].bbox, FALSE))], h)

\* h is the heap after the allocation of child
RTreeNode_insert(node, child, h) ==
    IF node.is_leaf
    THEN [node EXCEPT !.leaf_properties = Append(@, child)]
    ELSE updateBoundingBox(
            [node EXCEPT !.children = Append(@, RTreeNode(h[child].bbox, FALSE))], h)

----------------------------------------------------------------------------
(* RTree *)

RootMin == 0
RootMax == 100

RTree == RTreeNode(Rectangle(RootMin, RootMin, RootMax, RootMax), TRUE)

insert(r, prop, h) == RTreeNode_insert(r, prop, h)

\* mutant: the leaf is scanned from its last listing to its first
RECURSIVE LeafScan_backwards(_, _, _)
LeafScan_backwards(props, range, h) ==
    IF props = <<>> THEN <<>>
    ELSE LeafScan_backwards(Tail(props), range, h)
            \o (IF intersects(range, h[Head(props)].bbox) THEN <<Head(props)>> ELSE <<>>)

\* the listings of a leaf that a range keeps, in the leaf's order
RECURSIVE LeafScan(_, _, _)
LeafScan(props, range, h) ==
    IF props = <<>> THEN <<>>
    ELSE (IF intersects(range, h[Head(props)].bbox) THEN <<Head(props)>> ELSE <<>>)
            \o LeafScan(Tail(props), range, h)

\* mutant: no pruning against the node's bounding box
RECURSIVE queryRecursive_noprune(_, _, _)
queryRecursive_noprune(node, range, h) ==
    IF node.is_leaf
    THEN LeafScan(node.leaf_properties, range, h)
    ELSE IF node.children = <<>> THEN <<>>
    ELSE queryRecursive_noprune(Head(node.children), range, h)
            \o queryRecursive_noprune([node EXCEPT !.children = Tail(@)], range, h)

\* mutant: a leaf is scanned once for each of its listings
RECURSIVE queryRecursive_rescan(_, _, _)
queryRecursive_rescan(node, range, h) ==
    IF ~intersects(node.bounding_box, range) THEN <<>>
    ELSE IF node.is_leaf
    THEN IF node.leaf_properties = <<>> THEN <<>>
         ELSE LeafScan(node.leaf_properties, range, h)
                \o queryRecursive_rescan(
                      [node EXCEPT !.leaf_properties = Tail(@)], range, h)
    ELSE <<>>

\* the listings appended to results, in the order they are appended
RECURSIVE queryRecursive(_, _, _)
RECURSIVE VisitChildren(_, _, _)
VisitChildren(nodes, range, h) ==
    IF nodes = <<>> THEN <<>>
    ELSE queryRecursive(Head(nodes), range, h) \o VisitChildren(Tail(nodes), range, h)

queryRecursive(node, range, h) ==
    IF ~intersects(node.bounding_box, range) THEN <<>>
    ELSE IF node.is_leaf
    THEN LeafScan(node.leaf_properties, range, h)
    ELSE VisitChildren(node.children, range, h)

query(r, range, h) == queryRecursive(r, range, h)

\* largest r in lo..hi with r * r <= n (lo * lo <= n)
RECURSIVE SqrtBetween(_, _, _)
SqrtBetween(n, lo, hi) ==
    IF lo >= hi THEN lo
    ELSE LET mid == (lo + hi + 1) \div 2
         IN IF mid * mid <= n THEN SqrtBetween(n, mid, hi)
            ELSE SqrtBetween(n, lo, mid - 1)

\* floor of the square root
Isqrt(n) == SqrtBetween(n, 0, n)

\* mutant: the distance is rounded to the nearest integer, not truncated
calculateDistance_round(x1, y1, x2, y2) ==
    (Isqrt((x2 - x1) * (x2 - x1) + (y2 - y1) * (y2 - y1)) + 1) \div 2

\* arguments in half units; int distance = sqrt(...) truncates toward zero.
\* The inputs keep the square root far below the largest int, so the
\* conversion is always defined here.
calculateDistance(x1, y1, x2, y2) ==
    Isqrt((x2 - x1) * (x2 - x1) + (y2 - y1) * (y2 - y1)) \div 2

\* the candidates that pass the distance and attribute tests, in order
RECURSIVE NearFilter(_, _, _, _, _, _, _, _)
NearFilter(props, h, x, y, distance_km, max_price, min_area, min_bedrooms) ==
    IF props = <<>> THEN <<>>
    ELSE LET prop == h[Head(props)]
             dist == calculateDistance(2 * x, 2 * y,
                                       prop.bbox.x_min + prop.bbox.x_max,
                                       prop.bbox.y_min + prop.bbox.y_max)
         IN (IF dist <= distance_km
                  /\ prop.price <= max_price
                  /\ prop.area >= min_area
                  /\ prop.bedrooms >= min_bedrooms
             THEN <<Head(props)>> ELSE <<>>)
            \o NearFilter(Tail(props), h, x, y, distance_km, max_price, min_area, min_bedrooms)

queryNearLocation(r, h, x, y, distance_km, max_price, min_area, min_bedrooms) ==
    LET search_area == Rectangle(x - distance_km, y - distance_km,
                                 x + distance_km, y + distance_km)
        properties == query(r, search_area, h)
    IN NearFilter(properties, h, x, y, distance_km, max_price, min_area, min_bedrooms)

----------------------------------------------------------------------------
(* Inputs main accepts *)

\* bbox with x_min <= x_max and y_min <= y_max; price >= 0, area >= 0, bedrooms >= 0
PropertyInputs ==
    { Property("a", 1, 1, 1, Rectangle(0, 0, 1, 1)),
      Property("b", 1, 2, 2, Rectangle(1, 1, 1, 1)),
      Property("c", 2, 1, 1, Rectangle(1, 0, 2, 0)),
      Property("d", 2, 2, 1, Rectangle(1, 1, 1, 1)),
      Property("f", 2, 2, 2, Rectangle(0, 0, 100, 100)),
      Property("g", 1, 2, 1, Rectangle(99, 99, 101, 101)),
      Property("h", 1, 1, 1, Rectangle(101, 101, 102, 102)),
      Property("i", 2, 1, 2, Rectangle(0, 101, 1, 102)),
      Property("j", 1, 2, 2, Rectangle(0, 1, 0, 2)) }

\* query ranges: x_min <= x_max and y_min <= y_max
RangeInputs ==
    { Rectangle(0, 0, 100, 100), Rectangle(0, 0, 102, 102), Rectangle(0, 0, 0, 0),
      Rectangle(1, 1, 2, 2), Rectangle(2, 0, 3, 1), Rectangle(3, 3, 4, 4),
      Rectangle(100, 100, 102, 102), Rectangle(101, 101, 102, 102),
      Rectangle(100, 0, 101, 1), Rectangle(0, 100, 0, 101), Rectangle(0, 101, 102, 102),
      Rectangle(-1, -1, 0, 0), Rectangle(-2, -2, -1, -1) }

\* distance_km >= 0, max_price >= 0, min_area >= 0, min_bedrooms >= 0
NearPoints == { <<0, 0>>, <<1, 0>>, <<101, 101>> }

NearInputs ==
    { [x |-> pt[1], y |-> pt[2], distance_km |-> d,
       max_price |-> mp, min_area |-> ma, min_bedrooms |-> mb] :
        pt \in NearPoints, d \in {0, 1, 2}, mp \in {1, 2}, ma \in {1, 2}, mb \in {1, 2} }

----------------------------------------------------------------------------
(* main *)

NoRect == Rectangle(0, 0, 0, 0)

Init ==
    /\ root = RTree
    /\ heap = <<>>
    /\ op = "start"
    /\ args = <<>>
    /\ results = <<>>
    /\ rect_a = NoRect
    /\ rect_b = NoRect
    /\ rect_hit = <<>>

\* choice 1: new Property(...), tree.insert(prop)
Insert ==
    /\ Len(heap) < MaxProps
    /\ \E p \in PropertyInputs :
        LET h == Append(heap, p)
            prop == Len(h)
        IN /\ heap' = h
           /\ root' = insert(root, prop, h)
           /\ args' = prop
    /\ op' = "insert"
    /\ results' = <<>>
    /\ UNCHANGED <<rect_a, rect_b, rect_hit>>

\* choice 2: tree.query(query_range)
Query ==
    /\ \E range \in RangeInputs :
        /\ args' = range
        /\ results' = query(root, range, heap)
    /\ op' = "query"
    /\ UNCHANGED <<root, heap, rect_a, rect_b, rect_hit>>

\* choice 3: tree.queryNearLocation(...)
QueryNear ==
    /\ \E a \in NearInputs :
        /\ args' = a
        /\ results' = queryNearLocation(root, heap, a.x, a.y, a.distance_km,
                                        a.max_price, a.min_area, a.min_bedrooms)
    /\ op' = "near"
    /\ UNCHANGED <<root, heap, rect_a, rect_b, rect_hit>>

Next == Insert \/ Query \/ QueryNear

Spec == Init /\ [][Next]_vars

----------------------------------------------------------------------------
(* Rectangle::intersects on its own, inverted rectangles included *)

Coords == 0..MaxCoord

AnyRect == [x_min : Coords, y_min : Coords, x_max : Coords, y_max : Coords]

\* the two receivers are arbitrary; nothing has been returned yet
InitRect ==
    /\ root = RTree
    /\ heap = <<>>
    /\ op = "start"
    /\ args = <<>>
    /\ results = <<>>
    /\ rect_a \in AnyRect
    /\ rect_b \in AnyRect
    /\ rect_hit = <<>>

\* rect_hit collects the value of a.intersects(b), then of b.intersects(a)
Intersect ==
    /\ rect_hit = <<>>
    /\ rect_hit' = <<intersects(rect_a, rect_b), intersects(rect_b, rect_a)>>
    /\ UNCHANGED <<root, heap, op, args, results, rect_a, rect_b>>

NextRect == Intersect

SpecRect == InitRect /\ [][NextRect]_vars

----------------------------------------------------------------------------
(* Vocabulary of the properties *)

\* the square the root is constructed with
InitialExtent == Rectangle(0, 0, 100, 100)

NonInverted(r) == r.x_min <= r.x_max /\ r.y_min <= r.y_max

\* closed-interval overlap on both axes
Overlap(a, b) ==
    /\ a.x_min <= b.x_max /\ b.x_min <= a.x_max
    /\ a.y_min <= b.y_max /\ b.y_min <= a.y_max

\* the closed regions of a and b share a grid point (px, py)
SharePoint(a, b) ==
    \E px \in Coords, py \in Coords :
        /\ a.x_min <= px /\ px <= a.x_max /\ a.y_min <= py /\ py <= a.y_max
        /\ b.x_min <= px /\ px <= b.x_max /\ b.y_min <= py /\ py <= b.y_max

\* range contains the whole of e
Covers(range, e) ==
    /\ range.x_min <= e.x_min /\ range.y_min <= e.y_min
    /\ range.x_max >= e.x_max /\ range.y_max >= e.y_max

\* the pointers handed to RTree::insert, in insertion order
Inserted == [i \in 1..Len(heap) |-> i]

\* the subsequence of s whose listings' bboxes overlap range
Overlapping(s, range) ==
    LET Keep(k) == Overlap(heap[k].bbox, range) IN SelectSeq(s, Keep)

\* four times the squared distance from (x, y) to the centroid of box
Dist2x4(x, y, box) ==
    (box.x_min + box.x_max - 2 * x) * (box.x_min + box.x_max - 2 * x)
        + (box.y_min + box.y_max - 2 * y) * (box.y_min + box.y_max - 2 * y)

\* the untruncated distance is at most radius
WithinRadius(x, y, box, radius) == Dist2x4(x, y, box) <= 4 * radius * radius

\* the integer part t of the distance is at most radius
TruncWithinRadius(x, y, box, radius) ==
    \E t \in 0..radius :
        /\ 4 * t * t <= Dist2x4(x, y, box)
        /\ Dist2x4(x, y, box) < 4 * (t + 1) * (t + 1)

PassesFilters(p, a) ==
    /\ p.price <= a.max_price
    /\ p.area >= a.min_area
    /\ p.bedrooms >= a.min_bedrooms

SearchArea(a) ==
    Rectangle(a.x - a.distance_km, a.y - a.distance_km,
              a.x + a.distance_km, a.y + a.distance_km)

NoDuplicates(s) == \A i, j \in 1..Len(s) : i /= j => s[i] /= s[j]

IsPrefix(s, t) == Len(s) <= Len(t) /\ \A i \in 1..Len(s) : s[i] = t[i]

\* the listings the root holds, by value, in the root's order
Stored(r, h) == [i \in 1..Len(r.leaf_properties) |-> h[r.leaf_properties[i]]]

----------------------------------------------------------------------------
(* Properties *)

\* C1: a query whose range intersects the root box (0,0)-(100,100) returns
\* exactly the inserted listings whose bbox overlaps the range, in insertion order.
C1_QueryExact ==
    (op = "query" /\ Overlap(args, InitialExtent))
        => results = Overlapping(Inserted, args)

\* C1 witness: two listings returned in insertion order, the second one lying
\* entirely outside the root box.
C1_Witness ==
    /\ op = "query"
    /\ Overlap(args, InitialExtent)
    /\ results = <<1, 2>>
    /\ ~Overlap(heap[2].bbox, InitialExtent)

\* C2 as stated: no query ever returns a listing whose bbox lies entirely
\* outside (0,0)-(100,100).
C2_OutsideNeverReturned ==
    op = "query" => \A i \in 1..Len(results) : Overlap(heap[results[i]].bbox, InitialExtent)

\* C2 amended: a query whose range does not intersect (0,0)-(100,100) returns no
\* listing whose bbox lies entirely outside that square.
C2_OutsideUnreachableOffExtent ==
    (op = "query" /\ ~Overlap(args, InitialExtent))
        => \A i \in 1..Len(results) : Overlap(heap[results[i]].bbox, InitialExtent)

\* C2 witness: an inserted listing outside the square overlaps the queried
\* range, the range misses the square, and the listing is not returned.
C2_Witness ==
    /\ op = "query"
    /\ ~Overlap(args, InitialExtent)
    /\ \E k \in 1..Len(heap) :
        ~Overlap(heap[k].bbox, InitialExtent) /\ Overlap(heap[k].bbox, args)
    /\ results = <<>>

\* C3 as stated: after N inserts a query whose range covers (0,0)-(100,100)
\* returns exactly N listings.
C3_CoveringQueryCountsAll ==
    (op = "query" /\ Covers(args, InitialExtent)) => Len(results) = Len(heap)

\* C3 amended: after N inserts of listings whose bboxes all intersect
\* (0,0)-(100,100), a query whose range covers that square returns exactly N listings.
C3_CoveringQueryCountsInExtent ==
    (/\ op = "query"
     /\ Covers(args, InitialExtent)
     /\ \A k \in 1..Len(heap) : Overlap(heap[k].bbox, InitialExtent))
        => Len(results) = Len(heap)

\* C3 witness: two listings, one of them reaching past the square, both counted.
C3_Witness ==
    /\ op = "query"
    /\ Covers(args, InitialExtent)
    /\ Len(heap) = 2
    /\ \A k \in 1..Len(heap) : Overlap(heap[k].bbox, InitialExtent)
    /\ \E k \in 1..Len(heap) : ~Covers(InitialExtent, heap[k].bbox)
    /\ Len(results) = 2

\* C4 as stated: every listing queryNearLocation returns has its centroid within
\* the untruncated distance radius of (x, y) and passes the three attribute tests.
C4_NearWithinTrueRadius ==
    op = "near" =>
        \A i \in 1..Len(results) :
            /\ WithinRadius(args.x, args.y, heap[results[i]].bbox, args.distance_km)
            /\ PassesFilters(heap[results[i]], args)

C6_QueryNoDuplicates == op = "query" => NoDuplicates(results)

\* C6 witness: two listings with equal fields, each returned once.
C6_Witness ==
    /\ op = "query"
    /\ Len(heap) = 2
    /\ heap[1] = heap[2]
    /\ Len(results) = 2

\* C7: for non-inverted a and b, intersects(a, b) is true exactly when the two
\* closed regions share a point.
C7_IntersectsIffSharePoint ==
    (rect_hit /= <<>> /\ NonInverted(rect_a) /\ NonInverted(rect_b))
        => (rect_hit[1] <=> SharePoint(rect_a, rect_b))

\* C7 witness: two proper rectangles that touch at a single corner intersect.
C7_Witness ==
    /\ rect_hit /= <<>>
    /\ rect_a.x_min < rect_a.x_max /\ rect_a.y_min < rect_a.y_max
    /\ rect_b.x_min < rect_b.x_max /\ rect_b.y_min < rect_b.y_max
    /\ rect_a.x_max = rect_b.x_min /\ rect_a.y_max = rect_b.y_min
    /\ rect_hit[1]

\* C8: intersects(a, b) = intersects(b, a) for all rectangles, inverted ones included.
C8_IntersectsSymmetric ==
    rect_hit /= <<>> => rect_hit[1] = rect_hit[2]

\* C8 witness: an inverted rectangle is reported as intersecting, in both orders.
C8_Witness ==
    /\ rect_hit /= <<>>
    /\ ~NonInverted(rect_a)
    /\ rect_hit[1] /\ rect_hit[2]

\* C9: the root is always a leaf without children whose bounding box is
\* (0,0)-(100,100).
C9_RootStaysFlat ==
    /\ root.is_leaf
    /\ root.children = <<>>
    /\ root.bounding_box = InitialExtent

\* C9 witness: a listing outside the square has been inserted and a radius
\* query has run.
C9_Witness ==
    /\ op = "near"
    /\ \E k \in 1..Len(heap) : ~Overlap(heap[k].bbox, InitialExtent)

\* C10: every step leaves the allocated listings and the root's listing
\* sequence a prefix of what they become; query and queryNearLocation change
\* neither them nor the root.
C10_AppendOnly ==
    [][/\ IsPrefix(heap, heap')
       /\ IsPrefix(root.leaf_properties, root'.leaf_properties)
       /\ IsPrefix(Stored(root, heap), Stored(root', heap'))
       /\ (op' \in {"query", "near"} => (heap' = heap /\ root' = root))]_vars

\* C10 witness: a second listing has just been inserted behind the first.
C10_Witness ==
    /\ op = "insert"
    /\ Len(root.leaf_properties) = 2

====
